---- MODULE Spec2Model ----
(***************************************************************************)
(* SSH Sentinel: the sshd_config document model (src/sshd_parser.py), the  *)
(* backup helpers (src/utils.py), the editor window that drives them       *)
(* (src/sshd_gui.py) and the form of the client editor (src/gui.py).       *)
(*                                                                         *)
(* Text is a sequence of characters, each character a one-character        *)
(* string; a file is read and written in Python's text mode, so its        *)
(* content is modelled after newline translation, with "\n" as the only    *)
(* line terminator.                                                        *)
(***************************************************************************)
EXTENDS Integers, Sequences, FiniteSets, TLC

VARIABLES
  live,       \* the file at SSHDConfig.path: [exists, data]
  bak,        \* the file at SSHDConfig.path + '.bak'
  heap,       \* the SSHDOption objects created so far, by identity
  all_lines,  \* SSHDConfig.all_lines: identities, in document order
  options,    \* SSHDConfig.options
  comments,   \* SSHDConfig.comments
  includes,   \* SSHDConfig.includes: SSHDInclude records
  items,      \* the SSHDOptionItem rows of list_widget
  current,    \* list_widget's current row (0: none)
  form,       \* the row whose editor form is shown (0: form cleared)
  pc,         \* position of the running handler
  last,       \* the handler that completed last, with its outcome
  out,        \* the text returned by the last to_text()
  found,      \* the last get_options_by_key call: [key, result]
  deleted,    \* identities removed by delete_option since the last load
  alt,        \* the file at a backup path the caller passes as bak_path
  presave,    \* history of the last Save: what the live file held, what was written
  blocks,     \* the client editor: SSHConfig.blocks, each with its _editor_refs
  nops        \* number of handlers run so far

vars == << live, bak, heap, all_lines, options, comments, includes, items,
           current, form, pc, last, out, found, deleted, alt, presave, blocks, nops >>

(***************************************************************************)
(* Bounds of the model.                                                    *)
(***************************************************************************)
MaxLines == 3
MaxOps == 5

----------------------------------------------------------------------------
(***************************************************************************)
(* Strings.                                                                *)
(***************************************************************************)
NL == "\n"

\* Python's None: a one-element tuple that is not a string of characters.
None == << "None" >>

\* str.isspace() on the characters the model uses
IsSpace(c) == c \in {" ", "\t", "\n"}

RECURSIVE lstrip(_)
lstrip(s) == IF s # <<>> /\ IsSpace(Head(s)) THEN lstrip(Tail(s)) ELSE s

RECURSIVE rstrip(_)
rstrip(s) ==
  IF s # <<>> /\ IsSpace(s[Len(s)]) THEN rstrip(SubSeq(s, 1, Len(s) - 1)) ELSE s

\* str.strip()
strip(s) == rstrip(lstrip(s))

\* a line kept with its terminator
rstrip_nl_keeps(s) == s

\* str.rstrip('\n')
RECURSIVE rstrip_nl(_)
rstrip_nl(s) ==
  IF s # <<>> /\ s[Len(s)] = NL THEN rstrip_nl(SubSeq(s, 1, Len(s) - 1)) ELSE s

\* lstrip_hash that strips nothing
lstrip_hash_none(s) == s

\* str.lstrip('#')
RECURSIVE lstrip_hash(_)
lstrip_hash(s) == IF s # <<>> /\ Head(s) = "#" THEN lstrip_hash(Tail(s)) ELSE s

\* str.startswith('#')
startswith_hash(s) == s # <<>> /\ Head(s) = "#"

UpperCase ==
  << "A","B","C","D","E","F","G","H","I","J","K","L","M",
     "N","O","P","Q","R","S","T","U","V","W","X","Y","Z" >>
LowerCase ==
  << "a","b","c","d","e","f","g","h","i","j","k","l","m",
     "n","o","p","q","r","s","t","u","v","w","x","y","z" >>

\* str.lower()
lower(s) ==
  [ i \in 1..Len(s) |->
      IF \E j \in 1..26 : UpperCase[j] = s[i]
      THEN LowerCase[CHOOSE j \in 1..26 : UpperCase[j] = s[i]]
      ELSE s[i] ]

\* index of the first "\n" of t, 0 when there is none
first_nl(t) ==
  IF \E i \in 1..Len(t) : t[i] = NL
  THEN CHOOSE i \in 1..Len(t) : t[i] = NL /\ \A j \in 1..(i - 1) : t[j] # NL
  ELSE 0

\* f.readlines(): the lines of t, each with its terminator
RECURSIVE readlines(_)
readlines(t) ==
  IF t = <<>> THEN <<>>
  ELSE LET n == first_nl(t)
       IN IF n = 0 THEN << t >>
          ELSE << SubSeq(t, 1, n) >> \o readlines(SubSeq(t, n + 1, Len(t)))

\* '\n'.join(parts)
RECURSIVE join_nl(_)
join_nl(parts) ==
  IF parts = <<>> THEN <<>>
  ELSE IF Len(parts) = 1 THEN parts[1]
  ELSE parts[1] \o << NL >> \o join_nl(Tail(parts))

\* length of the leading run of non-whitespace of s: group 1 of ^(\S+)(\s+(.*))?$
RECURSIVE token_len(_)
token_len(s) ==
  IF s = <<>> \/ IsSpace(Head(s)) THEN 0 ELSE 1 + token_len(Tail(s))

\* re.match(r'^(\S+)(\s+(.*))?$', s) succeeds
opt_match(s) ==
  /\ token_len(s) > 0
  /\ \A i \in 1..Len(s) : s[i] # NL

\* opt_match.group(1)
opt_key(s) == SubSeq(s, 1, token_len(s))

\* opt_match.group(3) if opt_match.group(3) else ''
opt_value(s) == lstrip(SubSeq(s, token_len(s) + 1, Len(s)))

s_include == << "i","n","c","l","u","d","e" >>
s_Include == << "I","n","c","l","u","d","e" >>

\* re.match(r'^Include\s+(.+)$', s, re.IGNORECASE) succeeds
include_match(s) ==
  /\ Len(s) > 8
  /\ lower(SubSeq(s, 1, 7)) = s_include
  /\ IsSpace(s[8])
  /\ lstrip(SubSeq(s, 8, Len(s))) # <<>>
  /\ \A i \in 1..Len(s) : s[i] # NL

\* include_match.group(1)
include_path(s) == lstrip(SubSeq(s, 8, Len(s)))

----------------------------------------------------------------------------
(***************************************************************************)
(* The boilerplate catalogue.                                              *)
(***************************************************************************)
\* SSHDConfig.ignored_comment_blocks, in catalogue order
ignored_comment_blocks ==
  << << <<"#"," ","S","e","t"," ","t","h","i","s"," ","t","o"," ","'","y","e","s","'"," ","t","o"," ","e","n","a","b","l","e"," ","P","A","M"," ","a","u","t","h","e","n","t","i","c","a","t","i","o","n",","," ","a","c","c","o","u","n","t"," ","p","r","o","c","e","s","s","i","n","g",",">>,
       <<"#"," ","a","n","d"," ","s","e","s","s","i","o","n"," ","p","r","o","c","e","s","s","i","n","g","."," ","I","f"," ","t","h","i","s"," ","i","s"," ","e","n","a","b","l","e","d",","," ","P","A","M"," ","a","u","t","h","e","n","t","i","c","a","t","i","o","n"," ","w","i","l","l">>,
       <<"#"," ","b","e"," ","a","l","l","o","w","e","d"," ","t","h","r","o","u","g","h"," ","t","h","e"," ","K","b","d","I","n","t","e","r","a","c","t","i","v","e","A","u","t","h","e","n","t","i","c","a","t","i","o","n"," ","a","n","d">>,
       <<"#"," ","P","a","s","s","w","o","r","d","A","u","t","h","e","n","t","i","c","a","t","i","o","n","."," "," ","D","e","p","e","n","d","i","n","g"," ","o","n"," ","y","o","u","r"," ","P","A","M"," ","c","o","n","f","i","g","u","r","a","t","i","o","n",",">>,
       <<"#"," ","P","A","M"," ","a","u","t","h","e","n","t","i","c","a","t","i","o","n"," ","v","i","a"," ","K","b","d","I","n","t","e","r","a","c","t","i","v","e","A","u","t","h","e","n","t","i","c","a","t","i","o","n"," ","m","a","y"," ","b","y","p","a","s","s">>,
       <<"#"," ","t","h","e"," ","s","e","t","t","i","n","g"," ","o","f"," ","\"","P","e","r","m","i","t","R","o","o","t","L","o","g","i","n"," ","p","r","o","h","i","b","i","t","-","p","a","s","s","w","o","r","d","\"",".">>,
       <<"#"," ","I","f"," ","y","o","u"," ","j","u","s","t"," ","w","a","n","t"," ","t","h","e"," ","P","A","M"," ","a","c","c","o","u","n","t"," ","a","n","d"," ","s","e","s","s","i","o","n"," ","c","h","e","c","k","s"," ","t","o"," ","r","u","n"," ","w","i","t","h","o","u","t">>,
       <<"#"," ","P","A","M"," ","a","u","t","h","e","n","t","i","c","a","t","i","o","n",","," ","t","h","e","n"," ","e","n","a","b","l","e"," ","t","h","i","s"," ","b","u","t"," ","s","e","t"," ","P","a","s","s","w","o","r","d","A","u","t","h","e","n","t","i","c","a","t","i","o","n">>,
       <<"#"," ","a","n","d"," ","K","b","d","I","n","t","e","r","a","c","t","i","v","e","A","u","t","h","e","n","t","i","c","a","t","i","o","n"," ","t","o"," ","'","n","o","'",".">> >>,
     << <<"#"," ","C","h","a","n","g","e"," ","t","o"," ","\"","y","e","s","\""," ","t","o"," ","e","n","a","b","l","e"," ","k","e","y","b","o","a","r","d","-","i","n","t","e","r","a","c","t","i","v","e"," ","a","u","t","h","e","n","t","i","c","a","t","i","o","n","."," "," ","D","e","p","e","n","d","i","n","g"," ","o","n">>,
       <<"#"," ","t","h","e"," ","s","y","s","t","e","m","'","s"," ","c","o","n","f","i","g","u","r","a","t","i","o","n",","," ","t","h","i","s"," ","m","a","y"," ","i","n","v","o","l","v","e"," ","p","a","s","s","w","o","r","d","s",","," ","c","h","a","l","l","e","n","g","e","-","r","e","s","p","o","n","s","e",",">>,
       <<"#"," ","o","n","e","-","t","i","m","e"," ","p","a","s","s","w","o","r","d","s"," ","o","r"," ","s","o","m","e"," ","c","o","m","b","i","n","a","t","i","o","n"," ","o","f"," ","t","h","e","s","e"," ","a","n","d"," ","o","t","h","e","r"," ","m","e","t","h","o","d","s",".">>,
       <<"#"," ","B","e","w","a","r","e"," ","i","s","s","u","e","s"," ","w","i","t","h"," ","s","o","m","e"," ","P","A","M"," ","m","o","d","u","l","e","s"," ","a","n","d"," ","t","h","r","e","a","d","s",".">> >>,
     << <<"#","T","h","i","s"," ","i","s"," ","t","h","e"," ","s","s","h","d"," ","s","e","r","v","e","r"," ","s","y","s","t","e","m","-","w","i","d","e"," ","c","o","n","f","i","g","u","r","a","t","i","o","n"," ","f","i","l","e","."," "," ","S","e","e">>,
       <<"#"," ","s","s","h","d","_","c","o","n","f","i","g","(","5",")"," ","f","o","r"," ","m","o","r","e"," ","i","n","f","o","r","m","a","t","i","o","n",".">>,
       <<>>,
       <<"#"," ","T","h","i","s"," ","s","s","h","d"," ","w","a","s"," ","c","o","m","p","i","l","e","d"," ","w","i","t","h"," ","P","A","T","H","=","/","u","s","r","/","l","o","c","a","l","/","b","i","n",":","/","u","s","r","/","b","i","n",":","/","b","i","n",":","/","u","s","r","/","g","a","m","e","s">>,
       <<>>,
       <<"#"," ","T","h","e"," ","s","t","r","a","t","e","g","y"," ","u","s","e","d"," ","f","o","r"," ","o","p","t","i","o","n","s"," ","i","n"," ","t","h","e"," ","d","e","f","a","u","l","t"," ","s","s","h","d","_","c","o","n","f","i","g"," ","s","h","i","p","p","e","d"," ","w","i","t","h">>,
       <<"#"," ","O","p","e","n","S","S","H"," ","i","s"," ","t","o"," ","s","p","e","c","i","f","y"," ","o","p","t","i","o","n","s"," ","w","i","t","h"," ","t","h","e","i","r"," ","d","e","f","a","u","l","t"," ","v","a","l","u","e"," ","w","h","e","r","e">>,
       <<"#"," ","p","o","s","s","i","b","l","e",","," ","b","u","t"," ","l","e","a","v","e"," ","t","h","e","m"," ","c","o","m","m","e","n","t","e","d","."," "," ","U","n","c","o","m","m","e","n","t","e","d"," ","o","p","t","i","o","n","s"," ","o","v","e","r","r","i","d","e"," ","t","h","e">>,
       <<"#"," ","d","e","f","a","u","l","t"," ","v","a","l","u","e",".">> >>,
     << <<"#"," ","C","i","p","h","e","r","s"," ","a","n","d"," ","k","e","y","i","n","g">> >>,
     << <<"#"," ","L","o","g","g","i","n","g">> >>,
     << <<"#"," ","A","u","t","h","e","n","t","i","c","a","t","i","o","n",":">> >>,
     << <<"#"," ","E","x","p","e","c","t"," ",".","s","s","h","/","a","u","t","h","o","r","i","z","e","d","_","k","e","y","s","2"," ","t","o"," ","b","e"," ","d","i","s","r","e","g","a","r","d","e","d"," ","b","y"," ","d","e","f","a","u","l","t"," ","i","n"," ","f","u","t","u","r","e",".">> >>,
     << <<"#"," ","F","o","r"," ","t","h","i","s"," ","t","o"," ","w","o","r","k"," ","y","o","u"," ","w","i","l","l"," ","a","l","s","o"," ","n","e","e","d"," ","h","o","s","t"," ","k","e","y","s"," ","i","n"," ","/","e","t","c","/","s","s","h","/","s","s","h","_","k","n","o","w","n","_","h","o","s","t","s">> >>,
     << <<"#"," ","C","h","a","n","g","e"," ","t","o"," ","y","e","s"," ","i","f"," ","y","o","u"," ","d","o","n","'","t"," ","t","r","u","s","t"," ","~","/",".","s","s","h","/","k","n","o","w","n","_","h","o","s","t","s"," ","f","o","r">>,
       <<"#"," ","H","o","s","t","b","a","s","e","d","A","u","t","h","e","n","t","i","c","a","t","i","o","n">> >>,
     << <<"#"," ","D","o","n","'","t"," ","r","e","a","d"," ","t","h","e"," ","u","s","e","r","'","s"," ","~","/",".","r","h","o","s","t","s"," ","a","n","d"," ","~","/",".","s","h","o","s","t","s"," ","f","i","l","e","s">> >>,
     << <<"#"," ","T","o"," ","d","i","s","a","b","l","e"," ","t","u","n","n","e","l","e","d"," ","c","l","e","a","r"," ","t","e","x","t"," ","p","a","s","s","w","o","r","d","s",","," ","c","h","a","n","g","e"," ","t","o"," ","\"","n","o","\""," ","h","e","r","e","!">> >>,
     << <<"#"," ","K","e","r","b","e","r","o","s"," ","o","p","t","i","o","n","s">> >>,
     << <<"#"," ","G","S","S","A","P","I"," ","o","p","t","i","o","n","s">> >>,
     << <<"#"," ","n","o"," ","d","e","f","a","u","l","t"," ","b","a","n","n","e","r"," ","p","a","t","h">> >>,
     << <<"#"," ","A","l","l","o","w"," ","c","l","i","e","n","t"," ","t","o"," ","p","a","s","s"," ","l","o","c","a","l","e"," ","a","n","d"," ","c","o","l","o","r"," ","e","n","v","i","r","o","n","m","e","n","t"," ","v","a","r","i","a","b","l","e","s">> >>,
     << <<"#"," ","o","v","e","r","r","i","d","e"," ","d","e","f","a","u","l","t"," ","o","f"," ","n","o"," ","s","u","b","s","y","s","t","e","m","s">> >>,
     << <<"#"," ","E","x","a","m","p","l","e"," ","o","f"," ","o","v","e","r","r","i","d","i","n","g"," ","s","e","t","t","i","n","g","s"," ","o","n"," ","a"," ","p","e","r","-","u","s","e","r"," ","b","a","s","i","s">> >> >>

\* block_matches comparing the first line of the entry only
block_matches_first_line(lines, start_index, ignored_block) ==
  strip(lines[start_index]) = ignored_block[1]

\* one catalogue entry against the lines at start_index
block_matches(lines, start_index, ignored_block) ==
  \A i \in 1..Len(ignored_block) :
    /\ start_index + i - 1 <= Len(lines)
    /\ strip(lines[start_index + i - 1]) = ignored_block[i]

\* SSHDConfig._is_ignored_comment_block: length of the first entry that
\* matches at start_index, 0 when none does
is_ignored_comment_block(lines, start_index) ==
  LET fits(b) == /\ start_index + Len(ignored_comment_blocks[b]) - 1 <= Len(lines)
                 /\ block_matches(lines, start_index, ignored_comment_blocks[b])
      hits == { b \in 1..Len(ignored_comment_blocks) : fits(b) }
  IN IF hits = {} THEN 0
     ELSE Len(ignored_comment_blocks[CHOOSE b \in hits : \A c \in hits : b <= c])

----------------------------------------------------------------------------
(***************************************************************************)
(* The document.                                                           *)
(***************************************************************************)
SSHDOption(k, v, r, c, n) ==
  [ key |-> k, value |-> v, raw |-> r, commented |-> c, line_number |-> n ]

SSHDInclude(p, r, n) == [ path |-> p, raw |-> r, line_number |-> n ]

\* load without lines 111-114: the lists are not emptied first
EmptyDoc_keeps_lists ==
  [ heap |-> heap, all_lines |-> all_lines, options |-> options,
    comments |-> comments, includes |-> includes ]

\* SSHDConfig.__init__: the four lists, empty
EmptyDoc ==
  [ heap |-> <<>>, all_lines |-> <<>>, options |-> <<>>, comments |-> <<>>,
    includes |-> <<>> ]

\* a disabled directive: appended to all_lines only
AppendDisabled(doc, o) ==
  [ doc EXCEPT !.heap = Append(@, o),
               !.all_lines = Append(@, Len(doc.heap) + 1) ]

\* a pure comment or blank line: appended to comments and all_lines
AppendComment(doc, o) ==
  [ doc EXCEPT !.heap = Append(@, o),
               !.comments = Append(@, Len(doc.heap) + 1),
               !.all_lines = Append(@, Len(doc.heap) + 1) ]

\* an active directive: appended to options and all_lines
AppendOption(doc, o) ==
  [ doc EXCEPT !.heap = Append(@, o),
               !.options = Append(@, Len(doc.heap) + 1),
               !.all_lines = Append(@, Len(doc.heap) + 1) ]

\* the body of the while loop of SSHDConfig.load for one line i (1-based),
\* giving the document after it
load_line(lines, i, doc) ==
  LET line == rstrip_nl(lines[i])
      stripped == strip(line)
      line_num == i
      uncommented == strip(lstrip_hash(stripped))
  IN IF stripped = <<>> \/ startswith_hash(stripped)
     THEN IF startswith_hash(stripped) /\ opt_match(uncommented) /\ uncommented # <<>>
          THEN AppendDisabled(doc,
                 SSHDOption(opt_key(uncommented), opt_value(uncommented), line, TRUE, line_num))
          ELSE AppendComment(doc, SSHDOption(<<>>, None, line, TRUE, line_num))
     ELSE IF include_match(stripped)
     THEN [ AppendOption(doc,
              SSHDOption(s_Include, include_path(stripped), line, FALSE, line_num))
            EXCEPT !.includes = Append(@, SSHDInclude(include_path(stripped), line, line_num)) ]
     ELSE IF opt_match(stripped)
     THEN AppendOption(doc,
            SSHDOption(opt_key(stripped), opt_value(stripped), line, FALSE, line_num))
     ELSE AppendComment(doc, SSHDOption(<<>>, None, line, TRUE, line_num))

\* the while loop of SSHDConfig.load from line i on
RECURSIVE load_from(_, _, _)
load_from(lines, i, doc) ==
  IF i > Len(lines) THEN doc
  ELSE LET block_length == is_ignored_comment_block(lines, i)
       IN IF startswith_hash(strip(rstrip_nl(lines[i]))) /\ block_length > 0
          THEN load_from(lines, i + block_length, doc)
          ELSE load_from(lines, i + 1, load_line(lines, i, doc))

\* SSHDConfig.load on a file that exists: the document built from its text
load(text) == load_from(readlines(text), 1, EmptyDoc)

\* emit without the test that raw already starts with '#'
emit_always_prefix(o) ==
  IF o.commented /\ o.key # <<>> THEN << "#" >> \o o.raw ELSE o.raw

\* the line to_text emits for one entry
emit(o) ==
  IF o.commented /\ o.key # <<>>
  THEN IF ~startswith_hash(strip(o.raw)) THEN << "#" >> \o o.raw ELSE o.raw
  ELSE o.raw

\* to_text without the '#' safety net: every raw as it is
to_text_raw_only(h, lines) ==
  join_nl([ i \in 1..Len(lines) |-> h[lines[i]].raw ]) \o << NL >>

\* SSHDConfig.to_text
to_text(h, lines) ==
  join_nl([ i \in 1..Len(lines) |-> emit(h[lines[i]]) ]) \o << NL >>

\* add_option's default for commented
commented_default == FALSE

\* add_option_raw that writes the separating space even before an empty value
add_option_raw_always_space(k, v, c) ==
  LET raw == k \o << " " >> \o v
  IN IF c THEN << "#" >> \o raw ELSE raw

\* the raw add_option computes for its new entry
add_option_raw(k, v, c) ==
  LET raw == IF v # <<>> THEN k \o << " " >> \o v ELSE k
  IN IF c THEN << "#" >> \o raw ELSE raw

\* SSHDConfig.add_option: the document after the call
add_option(doc, k, v, c) ==
  LET o == SSHDOption(k, v, add_option_raw(k, v, c), c, Len(doc.all_lines) + 1)
      id == Len(doc.heap) + 1
  IN [ doc EXCEPT !.heap = Append(@, o),
                  !.all_lines = Append(@, id),
                  !.options = IF ~c THEN Append(@, id) ELSE @ ]

\* get_options_by_key comparing the keys as written
RECURSIVE get_options_by_key_exact_case(_, _, _)
get_options_by_key_exact_case(h, lines, k) ==
  IF lines = <<>> THEN <<>>
  ELSE (IF h[Head(lines)].key = k THEN << Head(lines) >> ELSE <<>>)
       \o get_options_by_key_exact_case(h, Tail(lines), k)

\* SSHDConfig.get_options_by_key: the entries of all_lines with that key
RECURSIVE get_options_by_key(_, _, _)
get_options_by_key(h, lines, k) ==
  IF lines = <<>> THEN <<>>
  ELSE (IF lower(h[Head(lines)].key) = lower(k) THEN << Head(lines) >> ELSE <<>>)
       \o get_options_by_key(h, Tail(lines), k)

----------------------------------------------------------------------------
(***************************************************************************)
(* Files and backups.                                                      *)
(***************************************************************************)
Absent == [ exists |-> FALSE, data |-> <<>> ]
File(t) == [ exists |-> TRUE, data |-> t ]

\* shutil.copy2(src, dst): the destination afterwards; raises when src is missing
copy2_ok(src) == src.exists

\* ensure_backup_exists without the test for an existing backup
ensure_backup_overwrites(cfg, b) == cfg

\* utils.ensure_backup_exists: the backup afterwards
ensure_backup_exists(cfg, b) == IF ~b.exists THEN cfg ELSE b

\* write_backup that keeps a backup that is already there
write_backup_keeps_existing(cfg, b) == IF copy2_ok(cfg) /\ ~b.exists THEN cfg ELSE b

\* SSHDConfig.write_backup: the backup afterwards
write_backup(cfg, b) == IF copy2_ok(cfg) THEN cfg ELSE b

\* restore_backup without the test for a missing backup
restore_backup_ok_always(b) == TRUE

\* SSHDConfig.restore_backup succeeds
restore_backup_ok(b) == b.exists

\* restore_backup that copies nothing
restore_backup_noop(cfg, b) == cfg

\* SSHDConfig.restore_backup: the live file afterwards
restore_backup(cfg, b) == IF restore_backup_ok(b) THEN b ELSE cfg

----------------------------------------------------------------------------
(***************************************************************************)
(* The editor window.                                                      *)
(***************************************************************************)
NoRefs == [ has |-> FALSE, key |-> <<>>, value |-> <<>>, commented |-> FALSE ]

\* SSHDMainWindow.reload_options_list: one fresh row per entry of all_lines
reload_options_list(lines) ==
  [ i \in 1..Len(lines) |-> [ option |-> lines[i], index |-> i, refs |-> NoRefs ] ]

\* the widgets on_select_option builds for an entry
editor_refs(o) ==
  [ has |-> TRUE,
    key |-> o.key,
    value |-> IF o.value # None /\ o.value # <<>> THEN o.value ELSE <<>>,
    commented |-> o.commented ]

\* edit_raw without the '#' of a commented entry
edit_raw_no_hash(new_key, new_value, new_commented) ==
  IF new_value # <<>> THEN new_key \o << " " >> \o new_value ELSE new_key

\* the raw collect_and_serialize computes for an edited entry
edit_raw(new_key, new_value, new_commented) ==
  LET raw == IF new_value # <<>> THEN new_key \o << " " >> \o new_value ELSE new_key
  IN IF new_commented THEN << "#" >> \o raw ELSE raw

\* the loop body of collect_and_serialize for one row with editor_refs
edit_option(o, refs) ==
  LET new_key == strip(refs.key)
      new_value == strip(refs.value)
      new_commented == refs.commented
  IN [ o EXCEPT !.key = new_key,
                !.value = new_value,
                !.commented = new_commented,
                !.raw = IF new_key # <<>>
                        THEN edit_raw(new_key, new_value, new_commented)
                        ELSE @ ]

\* collect writing the widgets of a selected row into every entry
collect_every_row(h, its) ==
  [ id \in 1..Len(h) |->
      IF \E i \in 1..Len(its) : its[i].refs.has
      THEN edit_option(h[id], its[CHOOSE i \in 1..Len(its) : its[i].refs.has].refs)
      ELSE h[id] ]

\* the loop of collect_and_serialize: the objects after every row with
\* editor_refs has been written back
collect(h, its) ==
  [ id \in 1..Len(h) |->
      IF \E i \in 1..Len(its) : its[i].option = id /\ its[i].refs.has
      THEN edit_option(h[id],
             its[CHOOSE i \in 1..Len(its) : its[i].option = id /\ its[i].refs.has].refs)
      ELSE h[id] ]

\* del all_lines[index]
del_at(lines, index) ==
  SubSeq(lines, 1, index - 1) \o SubSeq(lines, index + 1, Len(lines))

----------------------------------------------------------------------------
(***************************************************************************)
(* Inputs of the editor session.                                           *)
(***************************************************************************)
s_Port == << "P","o","r","t" >>
s_port == << "p","o","r","t" >>
s_PermitRootLogin ==
  << "P","e","r","m","i","t","R","o","o","t","L","o","g","i","n" >>
s_22 == << "2","2" >>
s_2200 == << "2","2","0","0" >>
s_no == << "n","o" >>

\* "Port   22": an active directive with a run of separating blanks
line_PortSpaced == s_Port \o << " "," "," " >> \o s_22
\* "#PermitRootLogin no": a disabled directive
line_PermitOff == << "#" >> \o s_PermitRootLogin \o << " " >> \o s_no
\* "port 22"
line_portLower == s_port \o << " " >> \o s_22

\* the texts sshd_config holds when a session starts
SessionFiles ==
  { line_PortSpaced \o << NL >> \o line_PermitOff \o << NL >>,
    <<>> \o << NL >> \o line_portLower }

\* a backup left behind by an earlier session
OldBackup == s_Port \o << " " >> \o s_2200 \o << NL >>

\* what the user types into the Option and Value fields
KeyTexts == { s_Port, << " " >> \o s_port \o << " " >>, <<>> }
ValueTexts == { <<>>, s_2200 }

\* the keys a caller looks up
LookupKeys == { s_Port, <<>> }

Done(op, ok, args) == [ op |-> op, ok |-> ok, args |-> args ]

\* no Save has run yet.  before: the live file as the last Save found it;
\* written: the text that Save wrote; done: it ran to its end; bak_kept,
\* live_kept: no handler of the window has written that file since; alone:
\* no other process has written or removed either file since
NoSave ==
  [ before |-> Absent, written |-> <<>>, done |-> FALSE,
    bak_kept |-> FALSE, live_kept |-> FALSE, alone |-> FALSE ]

Init ==
  /\ live \in {Absent} \cup { File(t) : t \in SessionFiles }
  /\ bak \in { Absent, File(OldBackup) }
  /\ heap = <<>>
  /\ all_lines = <<>>
  /\ options = <<>>
  /\ comments = <<>>
  /\ includes = <<>>
  /\ items = <<>>
  /\ current = 0
  /\ form = 0
  /\ pc = "closed"
  /\ last = Done("new", TRUE, <<>>)
  /\ out = <<>>
  /\ found = [ key |-> <<>>, result |-> <<>> ]
  /\ deleted = {}
  /\ nops = 0
  /\ alt = Absent
  /\ presave = NoSave
  /\ blocks = <<>>

docvars == << heap, all_lines, options, comments, includes >>
uivars == << items, current, form >>

\* the in-memory document becomes doc
SetDoc(doc) ==
  /\ heap' = doc.heap
  /\ all_lines' = doc.all_lines
  /\ options' = doc.options
  /\ comments' = doc.comments
  /\ includes' = doc.includes

ThisDoc ==
  [ heap |-> heap, all_lines |-> all_lines, options |-> options,
    comments |-> comments, includes |-> includes ]

\* a handler starts: the window is idle and the session has steps left
Begin == pc = "idle" /\ nops < MaxOps /\ nops' = nops + 1

\* SSHDMainWindow.refresh_configuration on a live file that exists
Refresh(text) ==
  /\ SetDoc(load(text))
  /\ items' = reload_options_list(load(text).all_lines)
  /\ current' = 0
  /\ form' = 0
  /\ deleted' = {}

\* SSHDMainWindow.__init__: load, ensure_backup_exists, reload_options_list;
\* a failing load ends the process
Startup ==
  /\ pc = "closed" /\ nops < MaxOps /\ nops' = nops + 1
  /\ IF live.exists
     THEN /\ Refresh(live.data)
          /\ bak' = ensure_backup_exists(live, bak)
          /\ pc' = "idle"
          /\ last' = Done("init", TRUE, <<>>)
     ELSE /\ UNCHANGED << docvars, uivars, deleted, bak, pc >>
          /\ last' = Done("init", FALSE, <<>>)
  /\ UNCHANGED << live, out, found >>
  /\ presave' = IF live.exists /\ ~bak.exists
                THEN [ presave EXCEPT !.bak_kept = FALSE ] ELSE presave
  /\ UNCHANGED << alt, blocks >>

\* the window is closed; a later session constructs a new one
Quit ==
  /\ pc = "idle" /\ nops < MaxOps /\ nops' = nops + 1
  /\ SetDoc(EmptyDoc)
  /\ items' = <<>> /\ current' = 0 /\ form' = 0 /\ deleted' = {}
  /\ pc' = "closed"
  /\ last' = Done("quit", TRUE, <<>>)
  /\ UNCHANGED << live, bak, out, found >>
  /\ UNCHANGED << alt, presave, blocks >>

\* SSHDMainWindow.on_select_option
OnSelectOption(i) ==
  /\ Begin
  /\ i \in 1..Len(items) /\ i # current
  /\ items' = [ items EXCEPT ![i].refs = editor_refs(heap[items[i].option]) ]
  /\ current' = i
  /\ form' = i
  /\ last' = Done("on_select_option", TRUE, << i >>)
  /\ UNCHANGED << live, bak, docvars, pc, out, found, deleted >>
  /\ UNCHANGED << alt, presave, blocks >>

\* the user types into the widgets of the form that is shown
EditForm(k, v, c) ==
  /\ Begin
  /\ form # 0 /\ items[form].refs.has
  /\ items' = [ items EXCEPT ![form].refs =
                  [ has |-> TRUE, key |-> k, value |-> v, commented |-> c ] ]
  /\ last' = Done("edit_form", TRUE, << k, v, c >>)
  /\ UNCHANGED << live, bak, docvars, current, form, pc, out, found, deleted >>
  /\ UNCHANGED << alt, presave, blocks >>

\* SSHDMainWindow.delete_option, from the form's delete button, answered Yes
DeleteOption ==
  /\ Begin
  /\ form # 0
  /\ all_lines' = del_at(all_lines, form)
  /\ items' = reload_options_list(all_lines')
  /\ current' = 0
  /\ form' = 0
  /\ deleted' = deleted \cup { all_lines[form] }
  /\ last' = Done("delete_option", TRUE, << form >>)
  /\ UNCHANGED << live, bak, heap, options, comments, includes, pc, out, found >>
  /\ UNCHANGED << alt, presave, blocks >>

\* SSHDMainWindow.on_add_option with both dialogs accepted
OnAddOption(k, v) ==
  /\ Begin
  /\ IF strip(k) # <<>>
     THEN /\ SetDoc(add_option(ThisDoc, strip(k), strip(v), FALSE))
          /\ items' = reload_options_list(all_lines')
          /\ current' = 0
          /\ last' = Done("on_add_option", TRUE, << strip(k), strip(v), FALSE >>)
     ELSE /\ UNCHANGED << docvars, items, current >>
          /\ last' = Done("on_add_option", FALSE, << k, v >>)
  /\ UNCHANGED << live, bak, form, pc, out, found, deleted >>
  /\ UNCHANGED << alt, presave, blocks >>

\* SSHDMainWindow.on_backup
OnBackup ==
  /\ Begin
  /\ bak' = write_backup(live, bak)
  /\ last' = Done("on_backup", copy2_ok(live), <<>>)
  /\ UNCHANGED << live, docvars, uivars, pc, out, found, deleted >>
  /\ presave' = IF copy2_ok(live)
                THEN [ presave EXCEPT !.bak_kept = FALSE ] ELSE presave
  /\ UNCHANGED << alt, blocks >>

\* SSHDMainWindow.on_restore up to its dialog: restore_backup; when it
\* succeeds the modal dialog "Restored from backup" opens and the handler
\* waits in it, when it fails the handler ends
OnRestore ==
  /\ Begin
  /\ live' = restore_backup(live, bak)
  /\ pc' = IF restore_backup_ok(bak) THEN "restore_dialog" ELSE "idle"
  /\ last' = Done("on_restore", restore_backup_ok(bak), <<>>)
  /\ UNCHANGED << bak, docvars, uivars, deleted, out, found >>
  /\ presave' = IF restore_backup_ok(bak)
                THEN [ presave EXCEPT !.live_kept = FALSE ] ELSE presave
  /\ UNCHANGED << alt, blocks >>

\* SSHDMainWindow.on_restore after its dialog: refresh_configuration, which
\* keeps the document, the list, the selection and the form as they are
\* when load fails
RestoreRefresh ==
  /\ pc = "restore_dialog"
  /\ IF live.exists
     THEN Refresh(live.data)
     ELSE UNCHANGED << docvars, uivars, deleted >>
  /\ pc' = "idle"
  /\ last' = Done("refresh_configuration", live.exists, <<>>)
  /\ UNCHANGED << live, bak, out, found, alt, presave, blocks, nops >>

\* SSHDMainWindow.on_save_as_bak
OnSaveAsBak ==
  /\ Begin
  /\ heap' = collect(heap, items)
  /\ out' = to_text(heap', all_lines)
  /\ bak' = File(out')
  /\ last' = Done("on_save_as_bak", TRUE, <<>>)
  /\ UNCHANGED << live, all_lines, options, comments, includes, uivars, pc,
                  found, deleted >>
  /\ presave' = [ presave EXCEPT !.bak_kept = FALSE ]
  /\ UNCHANGED << alt, blocks >>

\* on_save without line 332: the live file is rewritten with no backup taken
SaveBackup_skipped ==
  /\ Begin
  /\ pc' = "save_collect"
  /\ last' = Done("write_backup", TRUE, <<>>)
  /\ presave' = [ before |-> live, written |-> <<>>, done |-> FALSE,
                  bak_kept |-> TRUE, live_kept |-> TRUE, alone |-> TRUE ]
  /\ UNCHANGED << live, bak, docvars, uivars, out, found, deleted, alt, blocks >>

\* SSHDMainWindow.on_save, line 332: write_backup; a failure ends the handler
SaveBackup ==
  /\ Begin
  /\ bak' = write_backup(live, bak)
  /\ IF copy2_ok(live)
     THEN pc' = "save_collect" /\ last' = Done("write_backup", TRUE, <<>>)
     ELSE pc' = "idle" /\ last' = Done("on_save", FALSE, <<>>)
  /\ UNCHANGED << live, docvars, uivars, out, found, deleted >>
  /\ presave' = IF copy2_ok(live)
                THEN [ before |-> live, written |-> <<>>, done |-> FALSE,
                       bak_kept |-> TRUE, live_kept |-> TRUE, alone |-> TRUE ]
                ELSE presave
  /\ UNCHANGED << alt, blocks >>

\* on_save, line 335: collect_and_serialize
SaveCollect ==
  /\ pc = "save_collect"
  /\ heap' = collect(heap, items)
  /\ out' = to_text(heap', all_lines)
  /\ pc' = "save_open"
  /\ last' = Done("collect_and_serialize", TRUE, <<>>)
  /\ UNCHANGED << live, bak, all_lines, options, comments, includes, uivars,
                  found, deleted, nops >>
  /\ UNCHANGED << alt, presave, blocks >>

\* on_save, line 336: open(path, 'w') truncates the live file
SaveOpen ==
  /\ pc = "save_open"
  /\ live' = File(<<>>)
  /\ pc' = "save_write"
  /\ last' = Done("open", TRUE, <<>>)
  /\ UNCHANGED << bak, docvars, uivars, out, found, deleted, nops >>
  /\ UNCHANGED << alt, presave, blocks >>

\* on_save, line 337: f.write(text)
SaveWrite ==
  /\ pc = "save_write"
  /\ live' = File(out)
  /\ pc' = "save_refresh"
  /\ last' = Done("write", TRUE, <<>>)
  /\ UNCHANGED << bak, docvars, uivars, out, found, deleted, nops >>
  /\ presave' = [ presave EXCEPT !.written = out ]
  /\ UNCHANGED << alt, blocks >>

\* on_save, line 340: refresh_configuration
SaveRefresh ==
  /\ pc = "save_refresh"
  /\ Refresh(live.data)
  /\ pc' = "idle"
  /\ last' = Done("on_save", TRUE, <<>>)
  /\ UNCHANGED << live, bak, out, found, nops >>
  /\ presave' = [ presave EXCEPT !.done = TRUE ]
  /\ UNCHANGED << alt, blocks >>

\* a caller inspects the document with get_options_by_key
Lookup(k) ==
  /\ Begin
  /\ found' = [ key |-> k, result |-> get_options_by_key(heap, all_lines, k) ]
  /\ last' = Done("get_options_by_key", TRUE, << k >>)
  /\ UNCHANGED << live, bak, docvars, uivars, pc, out, deleted >>
  /\ UNCHANGED << alt, presave, blocks >>

\* a window is waiting for the user: idle, or in the dialog of on_restore
Waiting ==
  /\ pc \in { "idle", "restore_dialog", "client", "client_restore_dialog" }
  /\ nops < MaxOps /\ nops' = nops + 1

\* another process removes the backup file
EnvRemoveBackup ==
  /\ Waiting
  /\ bak.exists
  /\ bak' = Absent
  /\ last' = Done("env_remove_backup", TRUE, <<>>)
  /\ UNCHANGED << live, docvars, uivars, pc, out, found, deleted >>
  /\ presave' = [ presave EXCEPT !.alone = FALSE ]
  /\ UNCHANGED << alt, blocks >>

\* another process removes the live file
EnvRemoveLive ==
  /\ Waiting
  /\ live.exists
  /\ live' = Absent
  /\ presave' = [ presave EXCEPT !.alone = FALSE ]
  /\ last' = Done("env_remove_live", TRUE, <<>>)
  /\ UNCHANGED << bak, docvars, uivars, pc, out, found, deleted, alt, blocks >>

\* another process writes the live file anew, with the text t
EnvWriteLive(t) ==
  /\ Waiting
  /\ live # File(t)
  /\ live' = File(t)
  /\ presave' = [ presave EXCEPT !.alone = FALSE ]
  /\ last' = Done("env_write_live", TRUE, << t >>)
  /\ UNCHANGED << bak, docvars, uivars, pc, out, found, deleted, alt, blocks >>

\* the process dies in the middle of on_save; the files stay as they are
Crash ==
  /\ pc \in { "save_collect", "save_open", "save_write", "save_refresh" }
  /\ SetDoc(EmptyDoc)
  /\ items' = <<>> /\ current' = 0 /\ form' = 0 /\ deleted' = {}
  /\ pc' = "closed"
  /\ last' = Done("crash", TRUE, << pc >>)
  /\ UNCHANGED << live, bak, out, found, alt, presave, blocks, nops >>

Next ==
  \/ Startup
  \/ Quit
  \/ \E i \in 1..Len(items) : OnSelectOption(i)
  \/ \E k \in KeyTexts, v \in ValueTexts, c \in BOOLEAN : EditForm(k, v, c)
  \/ DeleteOption
  \/ \E k \in KeyTexts, v \in ValueTexts : OnAddOption(k, v)
  \/ OnBackup
  \/ OnRestore
  \/ RestoreRefresh
  \/ OnSaveAsBak
  \/ SaveBackup
  \/ SaveCollect
  \/ SaveOpen
  \/ SaveWrite
  \/ SaveRefresh
  \/ \E k \in LookupKeys : Lookup(k)
  \/ EnvRemoveBackup
  \/ EnvRemoveLive
  \/ EnvWriteLive(OldBackup)
  \/ Crash

Spec == Init /\ [][Next]_vars

----------------------------------------------------------------------------
(***************************************************************************)
(* The document model on its own: SSHDConfig driven through its methods    *)
(* on file texts built from a pool of lines.                               *)
(***************************************************************************)
cat_Logging == ignored_comment_blocks[5][1]
cat_ChangeTo == ignored_comment_blocks[9][1]
cat_Hostbased == ignored_comment_blocks[9][2]

\* the lines the file texts are built from
CoreLines ==
  { cat_Logging,                                        \* "# Logging"
    << " "," " >> \o cat_Logging \o << " " >>,          \* the same, indented
    [ cat_Logging EXCEPT ![Len(cat_Logging)] = "h" ],   \* "# Logginh"
    cat_ChangeTo,                                       \* first line of a two-line entry
    cat_Hostbased,                                      \* "# HostbasedAuthentication"
    [ cat_Hostbased EXCEPT ![3] = "h" ],                \* "# hostbasedAuthentication"
    << " " >> \o s_Port \o << " ","\t" >> \o s_22 \o << " " >>,  \* " Port \t22 "
    line_PermitOff,                                     \* "#PermitRootLogin no"
    << "#" >>,
    << "#"," ","#" >>,
    <<>>,
    s_include \o << " ","/","x" >>,                     \* "include /x"
    s_Include }                                         \* "Include"

BoundedSeqs(S, n) == UNION { [ 1..k -> S ] : k \in 0..n }

\* the file texts: up to MaxLines lines, with or without a final newline
CoreTexts ==
  { join_nl(ls) \o tail : ls \in BoundedSeqs(CoreLines, MaxLines),
                           tail \in { <<>>, << NL >> } }

InitCore ==
  /\ live \in { File(t) : t \in CoreTexts }
  /\ bak = Absent
  /\ heap = <<>>
  /\ all_lines = <<>>
  /\ options = <<>>
  /\ comments = <<>>
  /\ includes = <<>>
  /\ items = <<>>
  /\ current = 0
  /\ form = 0
  /\ pc = "core_new"
  /\ last = Done("new", TRUE, <<>>)
  /\ out = <<>>
  /\ found = [ key |-> <<>>, result |-> <<>> ]
  /\ deleted = {}
  /\ nops = 0
  /\ alt = Absent
  /\ presave = NoSave
  /\ blocks = <<>>

\* SSHDConfig.load
CoreLoad ==
  /\ pc = "core_new"
  /\ live.exists
  /\ SetDoc(load(live.data))
  /\ pc' = "core_loaded"
  /\ last' = Done("load", TRUE, <<>>)
  /\ UNCHANGED << live, bak, uivars, out, found, deleted, nops >>
  /\ UNCHANGED << alt, presave, blocks >>

\* SSHDConfig.add_option, called once on the loaded document; cs is the
\* optional third argument, << >> when the caller leaves it out
CoreAddOption(k, v, cs) ==
  /\ pc = "core_loaded"
  /\ SetDoc(add_option(ThisDoc, k, v, IF cs = <<>> THEN commented_default ELSE cs[1]))
  /\ pc' = "core_added"
  /\ last' = Done("add_option", TRUE, << k, v, cs >>)
  /\ UNCHANGED << live, bak, uivars, out, found, deleted, nops >>
  /\ UNCHANGED << alt, presave, blocks >>

\* SSHDConfig.to_text
CoreToText ==
  /\ pc \in { "core_loaded", "core_added" }
  /\ out' = to_text(heap, all_lines)
  /\ pc' = "core_text"
  /\ last' = Done("to_text", TRUE, << pc >>)
  /\ UNCHANGED << live, bak, docvars, uivars, found, deleted, nops >>
  /\ UNCHANGED << alt, presave, blocks >>

\* what on_save does to a document just loaded, with no row selected, from
\* the text to_text gave: write_backup, the text written to the live file,
\* refresh_configuration
CoreSave ==
  /\ pc = "core_text" /\ last.args = << "core_loaded" >>
  /\ bak' = write_backup(live, bak)
  /\ live' = File(out)
  /\ Refresh(out)
  /\ pc' = "core_saved"
  /\ last' = Done("on_save", TRUE, last.args)
  /\ UNCHANGED << out, found, alt, presave, blocks, nops >>

NextCore ==
  \/ CoreLoad
  \/ \E v \in ValueTexts, cs \in { <<>>, << TRUE >>, << FALSE >> } :
       CoreAddOption(s_Port, v, cs)
  \/ CoreToText
  \/ CoreSave

SpecCore == InitCore /\ [][NextCore]_vars

----------------------------------------------------------------------------
(***************************************************************************)
(* SSHDConfig as a library: a caller invokes its methods in any order      *)
(* while other processes change the files.                                 *)
(***************************************************************************)
\* main.py: config_path
ConfigPath ==
  << "/","e","t","c","/","s","s","h","/","s","s","h","d","_","c","o","n","f","i","g" >>
s_dot_bak == << ".","b","a","k" >>
\* a backup path a caller passes as bak_path
AltPath == << "/","t","m","p","/","b" >>

\* bak_path or self.path + '.bak'
backup_path(bak_path) ==
  IF bak_path = None \/ bak_path = <<>> THEN ConfigPath \o s_dot_bak ELSE bak_path

\* a byte that is not valid UTF-8
BadByte == "0xff"

\* lines 105-109 of load succeed: the path exists and the file decodes
load_ok(f) == f.exists /\ \A i \in 1..Len(f.data) : f.data[i] # BadByte

\* " #PermitRootLogin no": a disabled directive, indented
line_PermitOffIndented == << " " >> \o line_PermitOff

\* the texts the live file holds
ApiFiles ==
  { line_portLower \o << NL >> \o line_PermitOffIndented \o << NL >>,
    << "#" >> }

\* what a caller passes as bak_path
BakPaths == { None, <<>>, AltPath }

InitApi ==
  /\ live \in {Absent} \cup { File(t) : t \in ApiFiles }
  /\ bak \in { Absent, File(OldBackup) }
  /\ alt \in { Absent, File(OldBackup) }
  /\ heap = <<>>
  /\ all_lines = <<>>
  /\ options = <<>>
  /\ comments = <<>>
  /\ includes = <<>>
  /\ items = <<>>
  /\ current = 0
  /\ form = 0
  /\ pc = "api"
  /\ last = Done("new", TRUE, <<>>)
  /\ out = <<>>
  /\ found = [ key |-> <<>>, result |-> <<>> ]
  /\ deleted = {}
  /\ presave = NoSave
  /\ blocks = <<>>
  /\ nops = 0

\* a method call starts
BeginApi == pc = "api" /\ nops < MaxOps /\ nops' = nops + 1

\* SSHDConfig.load
ApiLoad ==
  /\ BeginApi
  /\ IF load_ok(live)
     THEN SetDoc(load(live.data))
     ELSE UNCHANGED docvars
  /\ last' = Done("load", load_ok(live), <<>>)
  /\ UNCHANGED << live, bak, alt, uivars, pc, out, found, deleted, presave, blocks >>

\* SSHDConfig.add_option
ApiAddOption(k, v, cs) ==
  /\ BeginApi
  /\ SetDoc(add_option(ThisDoc, k, v, IF cs = <<>> THEN commented_default ELSE cs[1]))
  /\ last' = Done("add_option", TRUE, << k, v, cs >>)
  /\ UNCHANGED << live, bak, alt, uivars, pc, out, found, deleted, presave, blocks >>

\* del config.all_lines[index], as delete_option does
ApiDelete(i) ==
  /\ BeginApi
  /\ i \in 1..Len(all_lines)
  /\ all_lines' = del_at(all_lines, i)
  /\ last' = Done("del", TRUE, << i >>)
  /\ UNCHANGED << live, bak, alt, heap, options, comments, includes, uivars, pc,
                  out, found, deleted, presave, blocks >>

\* option.commented = True on an entry of all_lines, raw left as it is
ApiSetCommented(i) ==
  /\ BeginApi
  /\ i \in 1..Len(all_lines)
  /\ ~heap[all_lines[i]].commented
  /\ heap' = [ heap EXCEPT ![all_lines[i]].commented = TRUE ]
  /\ last' = Done("set_commented", TRUE, << i >>)
  /\ UNCHANGED << live, bak, alt, all_lines, options, comments, includes, uivars,
                  pc, out, found, deleted, presave, blocks >>

\* SSHDConfig.to_text
ApiToText ==
  /\ BeginApi
  /\ out' = to_text(heap, all_lines)
  /\ last' = Done("to_text", TRUE, <<>>)
  /\ UNCHANGED << live, bak, alt, docvars, uivars, pc, found, deleted, presave, blocks >>

\* SSHDConfig.write_backup(bak_path); the path it returns is the second
\* element of last.args
ApiWriteBackup(bak_path) ==
  /\ BeginApi
  /\ IF backup_path(bak_path) = AltPath
     THEN alt' = write_backup(live, alt) /\ bak' = bak
     ELSE bak' = write_backup(live, bak) /\ alt' = alt
  /\ last' = Done("write_backup", copy2_ok(live),
                  << bak_path, IF copy2_ok(live) THEN backup_path(bak_path) ELSE None >>)
  /\ UNCHANGED << live, docvars, uivars, pc, out, found, deleted, presave, blocks >>

\* SSHDConfig.restore_backup(bak_path)
ApiRestoreBackup(bak_path) ==
  /\ BeginApi
  /\ LET b == IF backup_path(bak_path) = AltPath THEN alt ELSE bak
     IN /\ live' = restore_backup(live, b)
        /\ last' = Done("restore_backup", restore_backup_ok(b), << bak_path >>)
  /\ UNCHANGED << bak, alt, docvars, uivars, pc, out, found, deleted, presave, blocks >>

\* another process removes the live file or replaces what it holds
ApiEnv(f) ==
  /\ BeginApi
  /\ f # live
  /\ live' = f
  /\ last' = Done("env_live", TRUE, <<>>)
  /\ UNCHANGED << bak, alt, docvars, uivars, pc, out, found, deleted, presave, blocks >>

NextApi ==
  \/ ApiLoad
  \/ \E cs \in { <<>>, << TRUE >> } : ApiAddOption(s_Port, s_2200, cs)
  \/ \E i \in 1..Len(all_lines) : ApiDelete(i)
  \/ \E i \in 1..Len(all_lines) : ApiSetCommented(i)
  \/ ApiToText
  \/ \E p \in BakPaths : ApiWriteBackup(p)
  \/ \E p \in BakPaths : ApiRestoreBackup(p)
  \/ \E f \in { Absent, File(<< BadByte >>) } \cup { File(t) : t \in ApiFiles } : ApiEnv(f)

SpecApi == InitApi /\ [][NextApi]_vars

----------------------------------------------------------------------------
(***************************************************************************)
(* The client editor (src/gui.py): Host blocks, the form of the selected   *)
(* block and the handlers of the window.  The parser of the client model   *)
(* (ssh_parser) is not among the sources: its load, add_host and to_text   *)
(* follow sections 4.1 to 4.3 of the specification, its write_backup and   *)
(* restore_backup section 4.4, which gives them the contract of the server *)
(* model's.                                                                *)
(***************************************************************************)
\* a Qt widget: its class, its text and, for a checkbox, its state
Widget(cls, text, checked) == [ cls |-> cls, text |-> text, checked |-> checked ]
QLabel(text) == Widget("QLabel", text, FALSE)
QLineEdit(text) == Widget("QLineEdit", text, FALSE)
QCheckBox(text, checked) == Widget("QCheckBox", text, checked)
QPushButton(text) == Widget("QPushButton", text, FALSE)
\* None where a widget is expected
NoWidget == Widget("NoneType", <<>>, FALSE)

s_HostPattern == << "H","o","s","t"," ","(","p","a","t","t","e","r","n",")" >>
s_comment_label == << "<","c","o","m","m","e","n","t",">" >>
s_Commented == << "C","o","m","m","e","n","t","e","d" >>
s_AddOption == << "A","d","d"," ","O","p","t","i","o","n" >>
s_NewOption == << "N","e","w","O","p","t","i","o","n" >>

ConfigOption(k, v, r, c) == [ key |-> k, value |-> v, raw |-> r, commented |-> c ]

\* a block that has no _editor_refs attribute
NoEditorRefs == [ has |-> FALSE, header |-> NoWidget, option_rows |-> <<>> ]

\* a Host block: block.header.raw, block.options and block._editor_refs
HostBlock(h, opts) == [ header |-> h, options |-> opts, refs |-> NoEditorRefs ]

\* str.replace('\n', '')
replace_nl(s) == SelectSeq(s, LAMBDA ch : ch # NL)

\* the three widgets on_select_host makes for each option, in order
RECURSIVE row_widgets(_)
row_widgets(opts) ==
  IF opts = <<>> THEN <<>>
  ELSE << QLabel(IF Head(opts).key # <<>> THEN Head(opts).key ELSE s_comment_label),
          QLineEdit(IF Head(opts).value # None THEN Head(opts).value ELSE <<>>),
          QCheckBox(s_Commented, Head(opts).commented) >>
       \o row_widgets(Tail(opts))

\* self.current_widgets after line 123 of on_select_host
current_widgets(block) ==
  << QLabel(s_HostPattern), QLineEdit(replace_nl(block.header)) >>
  \o row_widgets(block.options)
  \o << QPushButton(s_AddOption) >>

\* the while loop of on_select_host over cw from position i (1-based)
RECURSIVE option_rows(_, _)
option_rows(cw, i) ==
  IF i > Len(cw) THEN <<>>
  ELSE IF cw[i].cls = "QLabel" /\ cw[i].text = <<>> THEN option_rows(cw, i + 1)
  ELSE << [ lbl |-> cw[i],
            val |-> IF i + 1 <= Len(cw) THEN cw[i + 1] ELSE NoWidget,
            chk |-> IF i + 2 <= Len(cw) /\ cw[i + 2].cls = "QCheckBox"
                    THEN cw[i + 2] ELSE NoWidget ] >>
       \o option_rows(cw, i + 3)

\* block._editor_refs as on_select_host leaves it
host_editor_refs(block) ==
  [ has |-> TRUE,
    header |-> current_widgets(block)[2],
    option_rows |-> option_rows(SubSeq(current_widgets(block), 3,
                                       Len(current_widgets(block))), 1) ]

\* the ConfigOption collect_and_serialize makes from one row
row_option(row) ==
  LET key == row.lbl.text
      value == IF row.val # NoWidget THEN row.val.text ELSE <<>>
      commented == IF row.chk # NoWidget THEN row.chk.checked ELSE FALSE
  IN ConfigOption(key, value, strip(key \o << " " >> \o value), commented)

\* the body of the loop of collect_and_serialize for one block
collect_block(block) ==
  IF ~block.refs.has THEN block
  ELSE [ block EXCEPT
           !.header = strip(block.refs.header.text),
           !.options = [ n \in 1..Len(block.refs.option_rows) |->
                           row_option(block.refs.option_rows[n]) ] ]

\* the lines SSHConfig.to_text gives: each block's header, then its options
\* by the serializer's rule
RECURSIVE client_lines(_)
client_lines(bs) ==
  IF bs = <<>> THEN <<>>
  ELSE << Head(bs).header >>
       \o [ n \in 1..Len(Head(bs).options) |-> emit(Head(bs).options[n]) ]
       \o client_lines(Tail(bs))

client_to_text(bs) == join_nl(client_lines(bs)) \o << NL >>

\* SSHConfig.to_text over the blocks collect_and_serialize has rewritten
collect_and_serialize(bs) == [ b \in 1..Len(bs) |-> collect_block(bs[b]) ]

s_host == << "h","o","s","t" >>
s_Host_sp == << "H","o","s","t"," " >>

\* the line is a Host line: an active directive whose key is Host in any case
is_host_line(line) ==
  /\ strip(line) # <<>>
  /\ ~startswith_hash(strip(line))
  /\ opt_match(strip(line))
  /\ lower(opt_key(strip(line))) = s_host

\* the entry the classifier makes of a line inside a block
client_option(line) ==
  LET stripped == strip(line)
      uncommented == strip(lstrip_hash(stripped))
  IN IF stripped = <<>> \/ startswith_hash(stripped)
     THEN IF opt_match(uncommented)
          THEN ConfigOption(opt_key(uncommented), opt_value(uncommented), line, TRUE)
          ELSE ConfigOption(<<>>, None, line, TRUE)
     ELSE IF opt_match(stripped)
     THEN ConfigOption(opt_key(stripped), opt_value(stripped), line, FALSE)
     ELSE ConfigOption(<<>>, None, line, TRUE)

\* the blocks built from line i on: a Host line opens a block, any other
\* line goes to the block open, and is dropped when none is
RECURSIVE ssh_load_from(_, _, _)
ssh_load_from(lines, i, bs) ==
  IF i > Len(lines) THEN bs
  ELSE IF is_host_line(rstrip_nl(lines[i]))
  THEN ssh_load_from(lines, i + 1, Append(bs, HostBlock(rstrip_nl(lines[i]), <<>>)))
  ELSE IF bs = <<>> THEN ssh_load_from(lines, i + 1, bs)
  ELSE ssh_load_from(lines, i + 1,
         [ bs EXCEPT ![Len(bs)].options = Append(@, client_option(rstrip_nl(lines[i]))) ])

\* SSHConfig.load on a file that exists: the blocks built from its text
ssh_load(text) == ssh_load_from(readlines(text), 1, <<>>)

\* SSHConfig.add_host
add_host(bs, pattern) == Append(bs, HostBlock(s_Host_sp \o pattern, <<>>))

s_Host_a == << "H","o","s","t"," ","a" >>
s_Host_b == << "H","o","s","t"," ","b" >>
s_User == << "U","s","e","r" >>
s_x == << "x" >>

\* the texts the client configuration holds when a session starts
ClientFiles ==
  { s_Host_a \o << NL, " "," " >> \o s_User \o << " " >> \o s_x \o << NL, "#", NL >>
      \o s_Host_b \o << NL >> \o line_PortSpaced \o << NL >>,
    s_Host_b \o << NL >> }

\* a backup left behind by an earlier session
ClientOldBackup == s_Host_b \o << NL >>

\* what the user types into the Add Host dialog and into the header field
HostPatterns == { << " ","c"," " >>, << " " >> }
HeaderTexts == { << " " >> \o s_Host_b \o << " " >>, <<>> }

\* how many Host blocks a configuration grows to
NumBlocks == 3

\* MainWindow.__init__ has run: load, then ensure_backup_exists
InitClient ==
  /\ live \in { File(t) : t \in ClientFiles }
  /\ \E b \in { Absent, File(ClientOldBackup) } : bak = ensure_backup_exists(live, b)
  /\ blocks = ssh_load(live.data)
  /\ alt = Absent
  /\ heap = <<>>
  /\ all_lines = <<>>
  /\ options = <<>>
  /\ comments = <<>>
  /\ includes = <<>>
  /\ items = <<>>
  /\ current = 0
  /\ form = 0
  /\ pc = "client"
  /\ last = Done("init", TRUE, <<>>)
  /\ out = <<>>
  /\ found = [ key |-> <<>>, result |-> <<>> ]
  /\ deleted = {}
  /\ presave = NoSave
  /\ nops = 0

\* what no handler of the client window touches
clientfixed == << alt, docvars, items, found, deleted, presave >>

\* a handler of the client window starts
BeginClient == pc = "client" /\ nops < MaxOps /\ nops' = nops + 1

\* MainWindow.on_select_host: current is the row of the list that is the
\* current one, form the block whose form is shown
ClientSelectHost(i) ==
  /\ BeginClient
  /\ i \in 1..Len(blocks) /\ i # current
  /\ blocks' = [ blocks EXCEPT ![i].refs = host_editor_refs(blocks[i]) ]
  /\ current' = i
  /\ form' = i
  /\ last' = Done("on_select_host", TRUE, << i >>)
  /\ UNCHANGED << clientfixed, live, bak, pc, out >>

\* the widgets of the form shown are those the block's _editor_refs holds
FormLinked == form \in 1..Len(blocks) /\ blocks[form].refs.has

\* the user types a value and sets the checkbox in row r of the form shown
ClientEdit(r, v, c) ==
  /\ BeginClient
  /\ FormLinked
  /\ r \in 1..Len(blocks[form].refs.option_rows)
  /\ blocks[form].refs.option_rows[r].val.cls = "QLineEdit"
  /\ blocks' = [ blocks EXCEPT ![form].refs.option_rows[r] =
                   [ @ EXCEPT !.val.text = v, !.chk.checked = c ] ]
  /\ last' = Done("edit_form", TRUE, << r, v, c >>)
  /\ UNCHANGED << clientfixed, live, bak, pc, current, form, out >>

\* the user types into the header field of the form shown
ClientEditHeader(h) ==
  /\ BeginClient
  /\ FormLinked
  /\ blocks' = [ blocks EXCEPT ![form].refs.header.text = h ]
  /\ last' = Done("edit_header", TRUE, << h >>)
  /\ UNCHANGED << clientfixed, live, bak, pc, current, form, out >>

\* MainWindow.add_option, from the button of the form shown, which holds the
\* index of the block the form was made for: the option is appended,
\* reload_host_list empties the list and setCurrentRow selects the block
\* again; with fewer blocks than the index the slot raises IndexError and
\* the process ends
ClientAddOption ==
  /\ BeginClient
  /\ form # 0
  /\ IF form <= Len(blocks)
     THEN /\ LET block == [ blocks[form] EXCEPT
                              !.options = Append(@, ConfigOption(s_NewOption, <<>>,
                                                      s_NewOption \o << " " >>, FALSE)) ]
             IN blocks' = [ blocks EXCEPT ![form] =
                              [ block EXCEPT !.refs = host_editor_refs(block) ] ]
          /\ current' = form
          /\ pc' = pc
     ELSE /\ pc' = "client_aborted"
          /\ UNCHANGED << blocks, current >>
  /\ last' = Done("add_option", form <= Len(blocks), << form >>)
  /\ UNCHANGED << clientfixed, live, bak, form, out >>

\* MainWindow.on_add_host: the block is appended and reload_host_list
\* empties the list, which is left without a current row; the form stays
ClientAddHost(text) ==
  /\ BeginClient
  /\ Len(blocks) < NumBlocks
  /\ IF strip(text) # <<>>
     THEN /\ blocks' = add_host(blocks, strip(text))
          /\ current' = 0
     ELSE UNCHANGED << blocks, current >>
  /\ last' = Done("on_add_host", strip(text) # <<>>, << text >>)
  /\ UNCHANGED << clientfixed, live, bak, pc, form, out >>

\* MainWindow.on_backup
ClientBackup ==
  /\ BeginClient
  /\ bak' = write_backup(live, bak)
  /\ last' = Done("on_backup", copy2_ok(live), <<>>)
  /\ UNCHANGED << clientfixed, live, pc, blocks, current, form, out >>

\* MainWindow.on_restore up to its dialog, from either button (on_restore_now
\* calls on_restore): restore_backup; when it succeeds the modal dialog
\* "Restored from .bak" opens and the handler waits in it
ClientRestore(handler) ==
  /\ BeginClient
  /\ live' = restore_backup(live, bak)
  /\ pc' = IF restore_backup_ok(bak) THEN "client_restore_dialog" ELSE pc
  /\ last' = Done(handler, restore_backup_ok(bak), <<>>)
  /\ UNCHANGED << clientfixed, bak, blocks, current, form, out >>

\* MainWindow.on_restore after its dialog: load replaces the blocks and
\* reload_host_list empties the list; the form stays; a failing load leaves
\* the blocks and the list as they are
ClientRestoreLoad ==
  /\ pc = "client_restore_dialog"
  /\ IF live.exists
     THEN blocks' = ssh_load(live.data) /\ current' = 0
     ELSE UNCHANGED << blocks, current >>
  /\ pc' = "client"
  /\ last' = Done("load", live.exists, <<>>)
  /\ UNCHANGED << clientfixed, live, bak, form, out, nops >>

\* MainWindow.on_save_as_bak
ClientSaveAsBak ==
  /\ BeginClient
  /\ blocks' = collect_and_serialize(blocks)
  /\ out' = client_to_text(blocks')
  /\ bak' = File(out')
  /\ last' = Done("on_save_as_bak", TRUE, <<>>)
  /\ UNCHANGED << clientfixed, live, pc, current, form >>

\* MainWindow.on_save: collect_and_serialize, write_backup, then the write
\* of the live file; a failing write_backup ends the handler after the
\* blocks have been rewritten
ClientSave ==
  /\ BeginClient
  /\ blocks' = collect_and_serialize(blocks)
  /\ out' = client_to_text(blocks')
  /\ bak' = write_backup(live, bak)
  /\ live' = IF copy2_ok(live) THEN File(out') ELSE live
  /\ last' = Done("on_save", copy2_ok(live), <<>>)
  /\ UNCHANGED << clientfixed, pc, current, form >>

NextClient ==
  \/ \E i \in 1..Len(blocks) : ClientSelectHost(i)
  \/ \E r \in 1..MaxLines, v \in ValueTexts, c \in BOOLEAN : ClientEdit(r, v, c)
  \/ \E h \in HeaderTexts : ClientEditHeader(h)
  \/ ClientAddOption
  \/ \E t \in HostPatterns : ClientAddHost(t)
  \/ ClientBackup
  \/ \E h \in { "on_restore", "on_restore_now" } : ClientRestore(h)
  \/ ClientRestoreLoad
  \/ ClientSaveAsBak
  \/ ClientSave
  \/ EnvRemoveBackup
  \/ EnvRemoveLive
  \/ EnvWriteLive(ClientOldBackup)

SpecClient == InitClient /\ [][NextClient]_vars

----------------------------------------------------------------------------
(***************************************************************************)
(* Properties of load() and to_text(), checked under SpecCore.             *)
(***************************************************************************)
\* the lines of the live file, without their terminators
FileLines == [ i \in 1..Len(readlines(live.data)) |-> rstrip_nl(readlines(live.data)[i]) ]

\* the text contains a catalogue entry: at some position the lines, trimmed,
\* are the lines of one entry
MatchesAt(lines, i, b) ==
  /\ i + Len(ignored_comment_blocks[b]) - 1 <= Len(lines)
  /\ \A n \in 1..Len(ignored_comment_blocks[b]) :
       strip(lines[i + n - 1]) = ignored_comment_blocks[b][n]

ContainsBlock(lines) ==
  \E i \in 1..Len(lines), b \in 1..Len(ignored_comment_blocks) : MatchesAt(lines, i, b)

\* line j lies inside a run that equals a whole catalogue entry
InBlock(lines, j) ==
  \E i \in 1..j, b \in 1..Len(ignored_comment_blocks) :
    MatchesAt(lines, i, b) /\ j < i + Len(ignored_comment_blocks[b])

\* the text with a newline added at its end unless it ends with one
WithFinalNewline(t) == IF t # <<>> /\ t[Len(t)] = NL THEN t ELSE t \o << NL >>

\* to_text() has just been applied to a freshly loaded, unmodified document
SerializedAfterLoad == pc = "core_text" /\ last.args = << "core_loaded" >>

\* C1: for a file text with no catalogue block, load() then to_text() with
\* no mutation in between returns the text itself, line for line, with a
\* final newline added when the text does not end with one.
C1_RoundTrip ==
  (SerializedAfterLoad /\ ~ContainsBlock(FileLines)) => out = WithFinalNewline(live.data)

\* a round trip of a text of two or more lines, none from the catalogue,
\* that has a disabled directive, a line with irregular spacing and no final newline
C1_Witness ==
  /\ SerializedAfterLoad
  /\ ~ContainsBlock(FileLines)
  /\ Len(all_lines) >= 2
  /\ out # live.data
  /\ \E i \in 1..Len(all_lines) : heap[all_lines[i]].commented /\ heap[all_lines[i]].key # <<>>
  /\ \E i \in 1..Len(all_lines) : heap[all_lines[i]].raw # strip(heap[all_lines[i]].raw)

\* the line numbers of the entries load() kept
KeptLines == { heap[all_lines[i]].line_number : i \in 1..Len(all_lines) }

\* C2: load() discards a line if and only if it lies in a run of lines that,
\* trimmed, equals one whole catalogue entry; every other line is kept, in
\* file order, with its text verbatim.
C2_Elision ==
  pc = "core_loaded" =>
    /\ \A j \in 1..Len(FileLines) : (j \notin KeptLines) <=> InBlock(FileLines, j)
    /\ \A i \in 1..Len(all_lines) :
         /\ heap[all_lines[i]].line_number \in 1..Len(FileLines)
         /\ heap[all_lines[i]].raw = FileLines[heap[all_lines[i]].line_number]
    /\ \A i, j \in 1..Len(all_lines) :
         i < j => heap[all_lines[i]].line_number < heap[all_lines[j]].line_number

\* l is a catalogue line with exactly one character changed
OneCharChanged(l, e) ==
  /\ Len(l) = Len(e)
  /\ Cardinality({ n \in 1..Len(e) : l[n] # e[n] }) = 1

\* a load that dropped a catalogued line and kept, whole, a two-line entry
\* whose second line has one character changed
C2_Witness ==
  /\ pc = "core_loaded"
  /\ \E j \in 1..Len(FileLines) : j \notin KeptLines
  /\ \E j \in 1..(Len(FileLines) - 1) :
       /\ FileLines[j] = ignored_comment_blocks[9][1]
       /\ OneCharChanged(FileLines[j + 1], ignored_comment_blocks[9][2])
       /\ {j, j + 1} \subseteq KeptLines

\* the number of '#' characters s starts with
HashRun(s) ==
  IF \E n \in 1..Len(s) : s[n] # "#"
  THEN (CHOOSE n \in 1..Len(s) : s[n] # "#" /\ \A m \in 1..(n - 1) : s[m] = "#") - 1
  ELSE Len(s)

\* what is left of a trimmed comment line after its leading '#'s and the
\* whitespace around them
AfterHash(t) == strip(SubSeq(t, HashRun(t) + 1, Len(t)))

\* the position of the first whitespace character of s, Len(s) + 1 when none
FirstSpace(s) ==
  IF \E n \in 1..Len(s) : IsSpace(s[n])
  THEN CHOOSE n \in 1..Len(s) : IsSpace(s[n]) /\ \A m \in 1..(n - 1) : ~IsSpace(s[m])
  ELSE Len(s) + 1

\* the first whitespace-delimited token of s, and what follows the
\* whitespace after it
FirstToken(s) == SubSeq(s, 1, FirstSpace(s) - 1)
AfterToken(s) == lstrip(SubSeq(s, FirstSpace(s), Len(s)))

\* the entry load() built from line j of the file
EntryOfLine(j) ==
  heap[all_lines[CHOOSE i \in 1..Len(all_lines) : heap[all_lines[i]].line_number = j]]

\* first sentence of C3: a kept '#' line with text after the '#' is a
\* disabled directive that serializes as the line itself
DisabledDirectiveRule(j) ==
  LET t == strip(FileLines[j])
      e == EntryOfLine(j)
  IN (startswith_hash(t) /\ AfterHash(t) # <<>>) =>
       /\ e.commented
       /\ e.key = FirstToken(AfterHash(t))
       /\ e.value = AfterToken(AfterHash(t))
       /\ e.raw = FileLines[j]
       /\ emit(e) = FileLines[j]

PureComment(e) == e.key = <<>> /\ e.value = None /\ e.commented

\* C3 as stated: every kept line that is blank or made only of '#' and
\* whitespace becomes an entry with key '', no value and commented=true.
C3_AsStated ==
  pc = "core_loaded" =>
    \A j \in KeptLines :
      /\ DisabledDirectiveRule(j)
      /\ (\A n \in 1..Len(FileLines[j]) : FileLines[j][n] = "#" \/ IsSpace(FileLines[j][n]))
           => PureComment(EntryOfLine(j))

\* C3, amended: a kept '#' line with text after its leading '#'s is a
\* disabled directive (key: first token, value: the rest, raw: the line,
\* serialized as the line); a kept line that is blank, or whose trimmed text
\* is made of '#' characters only, becomes an entry with key '', no value
\* and commented=true.
C3_DisabledDirective ==
  pc = "core_loaded" =>
    \A j \in KeptLines :
      /\ DisabledDirectiveRule(j)
      /\ (\A n \in 1..Len(strip(FileLines[j])) : strip(FileLines[j])[n] = "#")
           => PureComment(EntryOfLine(j))

\* a load of "#PermitRootLogin no" next to a line that is only '#'
C3_Witness ==
  /\ pc = "core_loaded"
  /\ \E j \in KeptLines :
       /\ FileLines[j] = line_PermitOff
       /\ EntryOfLine(j).key = s_PermitRootLogin
       /\ EntryOfLine(j).value = s_no
       /\ EntryOfLine(j).commented
  /\ \E j \in KeptLines : FileLines[j] = << "#" >> /\ PureComment(EntryOfLine(j))

\* C4 as stated: every line whose trimmed text is non-empty and does not
\* start with '#' becomes an active entry whose key is the first token as
\* written, whose value is the remainder and whose raw is the line.
C4_AsStated ==
  pc = "core_loaded" =>
    \A j \in KeptLines :
      LET t == strip(FileLines[j])
          e == EntryOfLine(j)
      IN (t # <<>> /\ ~startswith_hash(t)) =>
           /\ ~e.commented
           /\ e.key = FirstToken(t)
           /\ e.value = AfterToken(t)
           /\ e.raw = FileLines[j]

----------------------------------------------------------------------------
(***************************************************************************)
(* Properties of the mutation operations and of the backup operations.     *)
(***************************************************************************)
\* the step is one run of collect_and_serialize (from on_save or on_save_as_bak)
CollectStep ==
  \/ pc = "save_collect" /\ pc' = "save_open"
  \/ pc = "idle" /\ nops' = nops + 1 /\ last'.op = "on_save_as_bak"

\* the rows that carry editor widgets, whose entries the step edits
EditedRows == { i \in 1..Len(items) : items[i].refs.has }

\* the rule for raw: the key, then a space and the value when the value is
\* not empty, with '#' in front when commented
RuleRaw(k, v, c) ==
  (IF c THEN << "#" >> ELSE <<>>) \o k \o (IF v # <<>> THEN << " " >> \o v ELSE <<>>)

\* C5 as stated: after every edit, for all new key, value and commented,
\* the entry's raw is the rule applied to them.
C5_AsStated ==
  [][ CollectStep =>
        \A i \in EditedRows :
          heap'[items[i].option].raw =
            RuleRaw(strip(items[i].refs.key), strip(items[i].refs.value),
                    items[i].refs.commented) ]_vars

\* C5, amended: an edit stores the new key, value and commented; when the
\* new key is not empty the entry's raw is the rule applied to them and that
\* raw is the line serialized at the entry's position; when the new key is
\* empty the entry's raw is left as it was.
C5_EditRaw ==
  [][ CollectStep =>
        \A i \in EditedRows :
          LET k == strip(items[i].refs.key)
              v == strip(items[i].refs.value)
              c == items[i].refs.commented
              e == heap'[items[i].option]
          IN /\ e.key = k /\ e.value = v /\ e.commented = c
             /\ k # <<>> => /\ e.raw = RuleRaw(k, v, c)
                            /\ rstrip_nl(readlines(out')[i]) = e.raw
             /\ k = <<>> => e.raw = heap[items[i].option].raw ]_vars

\* collect_and_serialize has run in on_save on the entry loaded from
\* "Port   22" with the value edited to 2200: its raw is "Port 2200"
C5_Witness ==
  /\ pc = "save_open"
  /\ \E i \in EditedRows :
       /\ i <= Len(readlines(live.data))
       /\ rstrip_nl(readlines(live.data)[i]) = line_PortSpaced
       /\ strip(items[i].refs.value) = s_2200
       /\ ~items[i].refs.commented
       /\ heap[items[i].option].raw = s_Port \o << " " >> \o s_2200
       /\ rstrip_nl(readlines(out)[i]) = s_Port \o << " " >> \o s_2200

\* lines with its n-th element removed
Without(lines, n) ==
  [ m \in 1..(Len(lines) - 1) |-> IF m < n THEN lines[m] ELSE lines[m + 1] ]

\* C6: collect_and_serialize leaves all_lines and every entry that is not
\* edited as they were; all_lines changes only by add_option appending one
\* new entry, by delete removing one entry, or by load building the
\* document anew (or the window going away with its document).
C6_InPlace ==
  [][ /\ CollectStep =>
           /\ all_lines' = all_lines
           /\ Len(heap') = Len(heap)
           /\ \A id \in 1..Len(heap) :
                (\A i \in EditedRows : items[i].option # id) => heap'[id] = heap[id]
      /\ all_lines' # all_lines =>
           \/ /\ last'.op = "on_add_option"
              /\ all_lines' = Append(all_lines, Len(heap) + 1)
           \/ /\ last'.op = "delete_option"
              /\ \E n \in 1..Len(all_lines) : all_lines' = Without(all_lines, n)
           \/ last'.op \in { "init", "refresh_configuration", "on_save", "quit",
                             "crash" } ]_vars

\* collect_and_serialize has rewritten one entry of a document of two or
\* more entries and another entry has no widgets
C6_Witness ==
  /\ pc = "save_open"
  /\ Len(all_lines) >= 2
  /\ \E i \in EditedRows :
       /\ i <= Len(readlines(live.data))
       /\ heap[items[i].option].raw # rstrip_nl(readlines(live.data)[i])
  /\ \E i \in 1..Len(items) : i \notin EditedRows

\* the step is one call of add_option
AddStep == pc = "core_loaded" /\ pc' = "core_added"

\* C7: add_option(key, value, commented) appends one new entry at the end
\* of all_lines, commented false unless given, raw by the rule; the entries
\* already there and their positions are unchanged, and the serialized lines
\* are the previous lines followed by the new raw.
C7_AddAppends ==
  [][ AddStep =>
        LET k == last'.args[1]
            v == last'.args[2]
            c == IF last'.args[3] = <<>> THEN FALSE ELSE last'.args[3][1]
            e == heap'[all_lines'[Len(all_lines')]]
        IN /\ Len(all_lines') = Len(all_lines) + 1
           /\ SubSeq(all_lines', 1, Len(all_lines)) = all_lines
           /\ \A i \in 1..Len(all_lines) : all_lines[i] # all_lines'[Len(all_lines')]
           /\ \A id \in 1..Len(heap) : heap'[id] = heap[id]
           /\ e.key = k /\ e.value = v /\ e.commented = c
           /\ e.raw = RuleRaw(k, v, c)
           /\ to_text(heap', all_lines') =
                (IF all_lines = <<>> THEN <<>> ELSE to_text(heap, all_lines))
                  \o e.raw \o << NL >> ]_vars

\* add_option has appended a commented entry to a document of two or more lines
C7_Witness ==
  /\ pc = "core_added"
  /\ Len(all_lines) >= 3
  /\ last.args[3] = << TRUE >>
  /\ heap[all_lines[Len(all_lines)]].raw = << "#" >> \o s_Port \o << " " >> \o s_2200

\* the positions of all_lines whose key is k, ignoring case
Matching(k) == { i \in 1..Len(all_lines) : lower(heap[all_lines[i]].key) = lower(k) }

\* the n-th smallest element of a set of positions
Nth(P, n) == CHOOSE i \in P : Cardinality({ j \in P : j < i }) = n - 1

\* C8: get_options_by_key(k) returns the entries now in all_lines whose key
\* is k ignoring case, each once, in document order, and none that was deleted.
C8_Lookup ==
  last.op = "get_options_by_key" =>
    /\ Len(found.result) = Cardinality(Matching(found.key))
    /\ \A n \in 1..Len(found.result) :
         found.result[n] = all_lines[Nth(Matching(found.key), n)]
    /\ \A n \in 1..Len(found.result) : found.result[n] \notin deleted

\* a lookup by 'Port' after an entry with that key was deleted finds an
\* entry written 'port'
C8_Witness ==
  /\ last.op = "get_options_by_key"
  /\ found.key = s_Port
  /\ \E n \in 1..Len(found.result) : heap[found.result[n]].key = s_port
  /\ \E id \in deleted : lower(heap[id].key) = lower(found.key)

\* the step is on_restore up to the return of restore_backup
RestoreStep == pc = "idle" /\ nops' = nops + 1 /\ last'.op = "on_restore"

\* C9: restore_backup() with no backup file fails and leaves the live file,
\* the absent backup and the document unchanged; with a backup file the live
\* file gets the backup's content and the backup is unchanged.
C9_Restore ==
  [][ RestoreStep =>
        /\ ~bak.exists =>
             /\ ~last'.ok
             /\ live' = live /\ bak' = bak
             /\ << heap, all_lines, options, comments, includes >>' =
                  << heap, all_lines, options, comments, includes >>
             /\ pc' = "idle"
        /\ bak.exists =>
             /\ last'.ok
             /\ live'.exists /\ live'.data = bak.data
             /\ bak' = bak
             /\ pc' = "restore_dialog" ]_vars

\* on_restore has failed for want of a backup, with a document loaded
C9_Witness ==
  /\ last.op = "on_restore" /\ ~last.ok
  /\ ~bak.exists
  /\ live.exists
  /\ all_lines # <<>>

\* the step is one run of the constructor that got as far as ensure_backup_exists
EnsureStep == pc = "closed" /\ pc' = "idle"

\* C10: ensure_backup_exists creates the backup from the live file when
\* there is none and leaves an existing backup as it is, whatever the live
\* file holds.
C10_EnsureBackup ==
  [][ EnsureStep =>
        /\ bak.exists => bak' = bak
        /\ ~bak.exists => (bak'.exists /\ bak'.data = live.data)
        /\ live' = live ]_vars

\* the constructor has run again after the live file changed: the backup
\* still holds the text the session started with
C10_Witness ==
  /\ last.op = "init" /\ last.ok
  /\ nops >= 3
  /\ bak.exists /\ bak.data \in SessionFiles
  /\ live.exists /\ live.data # bak.data

\* the step is one call of write_backup by a caller
WriteBackupStep == pc = "api" /\ nops' = nops + 1 /\ last'.op = "write_backup"

\* C11: write_backup(path?) makes the backup file, at the given path or at
\* <config>.bak when none is given, hold what the live file holds, whatever
\* the backup held before; it returns the backup path and leaves the live
\* file and the file at the other backup path as they were.  When the live
\* file does not exist it fails and both backup files stay as they were.
C11_WriteBackup ==
  [][ WriteBackupStep =>
        LET given == last'.args[1]
            dst == IF given \in { None, <<>> } THEN ConfigPath \o s_dot_bak ELSE given
        IN /\ live' = live
           /\ IF live.exists
              THEN /\ last'.ok
                   /\ last'.args[2] = dst
                   /\ (IF dst = AltPath THEN alt' ELSE bak') = [ exists |-> TRUE, data |-> live.data ]
                   /\ IF dst = AltPath THEN bak' = bak ELSE alt' = alt
              ELSE /\ ~last'.ok
                   /\ bak' = bak
                   /\ alt' = alt ]_vars

\* write_backup was given a path and has made the file there equal to the
\* live file, which differs from the older backup still at <config>.bak
C11_Witness ==
  /\ last.op = "write_backup" /\ last.ok
  /\ last.args = << AltPath, AltPath >>
  /\ alt = live
  /\ bak.exists /\ bak # live

\* the step is one call of load by a caller
LoadStep == pc = "api" /\ nops' = nops + 1 /\ last'.op = "load"

\* ids is a sequence of identities of h in strictly increasing order
Ascending(ids, h) ==
  /\ \A n \in 1..Len(ids) : ids[n] \in 1..Len(h)
  /\ \A m, n \in 1..Len(ids) : m < n => ids[m] < ids[n]

\* the four lists hold nothing but entries made from the lines of text: every
\* object is one line of the text, in file order, and each list refers to
\* these objects only
BuiltFromFile(h, al, op, co, inc, text) ==
  LET fl == [ i \in 1..Len(readlines(text)) |-> rstrip_nl(readlines(text)[i]) ]
  IN /\ al = [ i \in 1..Len(h) |-> i ]
     /\ \A i \in 1..Len(h) :
          /\ h[i].line_number \in 1..Len(fl)
          /\ h[i].raw = fl[h[i].line_number]
     /\ \A i, j \in 1..Len(h) : i < j => h[i].line_number < h[j].line_number
     /\ Ascending(op, h)
     /\ Ascending(co, h)
     /\ \A n \in 1..Len(inc) :
          \E i \in 1..Len(h) :
            inc[n].line_number = h[i].line_number /\ inc[n].raw = h[i].raw
     /\ \A m, n \in 1..Len(inc) : m < n => inc[m].line_number < inc[n].line_number

\* C12: load() is all-or-nothing.  When the path does not exist or the file
\* cannot be read, it raises and options, includes, comments and all_lines
\* keep what they held; when it succeeds the four lists are built from the
\* file alone, nothing of earlier loads, adds, edits or deletes is left.
C12_AllOrNothing ==
  [][ LoadStep =>
        /\ live' = live
        /\ IF live.exists /\ \A i \in 1..Len(live.data) : live.data[i] # BadByte
           THEN /\ last'.ok
                /\ BuiltFromFile(heap', all_lines', options', comments', includes',
                                 live.data)
           ELSE /\ ~last'.ok
                /\ heap' = heap
                /\ all_lines' = all_lines
                /\ options' = options
                /\ comments' = comments
                /\ includes' = includes ]_vars

\* load has just failed on a document that holds a loaded entry and an added
\* one
C12_Witness ==
  /\ last.op = "load" /\ ~last.ok
  /\ \E m, n \in 1..Len(all_lines) :
       /\ heap[all_lines[m]].raw = line_portLower
       /\ heap[all_lines[n]].raw = s_Port \o << " " >> \o s_2200

\* the numbers of the file's active directive lines whose key is Include,
\* ignoring case
IncludeLineNumbers ==
  { j \in 1..Len(FileLines) :
      LET t == strip(FileLines[j])
      IN t # <<>> /\ ~startswith_hash(t) /\ lower(FirstToken(t)) = s_include }

\* C13 as stated: load() records one Include reference for every active
\* directive line whose key is Include ignoring case, with the directive's
\* value as path and the line as raw, in file order, and none for any other
\* line; each such line is also an active entry of the document; the files
\* are left alone.
C13_AsStated ==
  pc = "core_loaded" =>
    /\ Len(includes) = Cardinality(IncludeLineNumbers)
    /\ \A n \in 1..Len(includes) :
         LET j == Nth(IncludeLineNumbers, n)
         IN /\ includes[n].line_number = j
            /\ includes[n].raw = FileLines[j]
            /\ includes[n].path = AfterToken(strip(FileLines[j]))
            /\ includes[n].path = EntryOfLine(j).value
    /\ \A j \in IncludeLineNumbers :
         /\ ~EntryOfLine(j).commented
         /\ \E n \in 1..Len(options) : heap[options[n]] = EntryOfLine(j)
    /\ bak = Absent /\ alt = Absent

\* the step is one call of to_text by a caller
ToTextStep == pc = "api" /\ nops' = nops + 1 /\ last'.op = "to_text"

\* each line followed by one newline; a single newline when there is no line
RECURSIVE EachWithNewline(_)
EachWithNewline(ls) ==
  IF ls = <<>> THEN <<>> ELSE Head(ls) \o << NL >> \o EachWithNewline(Tail(ls))

Terminated(ls) == IF ls = <<>> THEN << NL >> ELSE EachWithNewline(ls)

\* s has a character that is not whitespace and the first such is '#'
HashFirst(s) ==
  \E n \in 1..Len(s) : s[n] = "#" /\ \A m \in 1..(n - 1) : IsSpace(s[m])

\* C14 as stated: to_text() emits one line per entry of all_lines, in order,
\* the entry's raw verbatim, except that an entry with commented true and a
\* non-empty key whose raw does not start with '#' gets one '#' in front.
C14_AsStated ==
  [][ ToTextStep =>
        out' = Terminated([ i \in 1..Len(all_lines) |->
                 LET o == heap[all_lines[i]]
                 IN IF o.commented /\ o.key # <<>> /\ (o.raw = <<>> \/ o.raw[1] # "#")
                    THEN << "#" >> \o o.raw ELSE o.raw ]) ]_vars

\* C14: to_text() emits one line per entry of all_lines, in order, the
\* entry's raw verbatim, except that an entry with commented true and a
\* non-empty key whose raw, leading whitespace aside, does not start with '#'
\* gets one '#' in front; the lines are joined by single newlines and the
\* text ends with one newline.
C14_Emit ==
  [][ ToTextStep =>
        out' = Terminated([ i \in 1..Len(all_lines) |->
                 LET o == heap[all_lines[i]]
                 IN IF o.commented /\ o.key # <<>> /\ ~HashFirst(o.raw)
                    THEN << "#" >> \o o.raw ELSE o.raw ]) ]_vars

\* to_text has put a '#' in front of an entry whose commented flag was set
\* without touching its raw, and has emitted an indented '#' line as it is
C14_Witness ==
  /\ last.op = "to_text"
  /\ Len(all_lines) = 2
  /\ heap[all_lines[1]].raw = line_portLower /\ heap[all_lines[1]].commented
  /\ heap[all_lines[2]].raw = line_PermitOffIndented
  /\ out = << "#" >> \o line_portLower \o << NL >> \o line_PermitOffIndented \o << NL >>

\* the positions on_save is at between its backup step and its end
SavePcs == { "save_collect", "save_open", "save_write", "save_refresh" }

\* C15: in every Save the copy of the live file to the backup has completed
\* when the live file is opened for writing, and when the backup step fails
\* the Save ends with the live file not written; at every point of a Save
\* after its backup step, and after a crash at any of these points, what the
\* live file held before the Save is held in full by the live file or by the
\* backup file.
C15_BackupFirst ==
  [][ /\ (pc = "idle" /\ nops' = nops + 1 /\ last'.op = "on_save" /\ ~last'.ok) =>
           (live' = live /\ pc' = "idle")
      /\ (pc \in SavePcs /\ live' # live) =>
           (bak.exists /\ bak = presave.before)
      /\ (pc' \in SavePcs \/ last'.op = "crash") =>
           (live' = presave'.before \/ bak' = presave'.before) ]_vars

\* the process died between opening the live file for writing and writing
\* it: the live file is empty and the backup holds what it held before
C15_Witness ==
  /\ last.op = "crash" /\ last.args = << "save_write" >>
  /\ live = [ exists |-> TRUE, data |-> <<>> ]
  /\ presave.before.data # <<>>
  /\ bak = presave.before

\* the rows whose widgets still show what on_select_option put there
UntouchedRows ==
  { i \in EditedRows : items[i].refs = editor_refs(heap[items[i].option]) }

\* C16 as stated: collect_and_serialize applied to an entry whose widgets
\* hold the entry's current key, value and commented flag (the entry was
\* selected and nothing was typed) leaves the entry's raw as it was, and when
\* this is so for every selected entry the serialized text is the text of
\* the document before the step.
C16_AsStated ==
  [][ CollectStep =>
        /\ \A i \in UntouchedRows :
             heap'[items[i].option].raw = heap[items[i].option].raw
        /\ (UntouchedRows = EditedRows) => out' = to_text(heap, all_lines) ]_vars

\* the step is a Save or a Save As .bak of the client window, which call
\* collect_and_serialize
CollectHostStep ==
  pc = "client" /\ nops' = nops + 1 /\ last'.op \in { "on_save", "on_save_as_bak" }

\* C17 as stated: in the client model, collect_and_serialize leaves every
\* block that was selected in the editor with as many entries as it had, the
\* entry at each position being the one that was there (same key for a
\* directive), and leaves every block that was not selected as it was.
C17_AsStated ==
  [][ CollectHostStep =>
        /\ Len(blocks') = Len(blocks)
        /\ \A b \in 1..Len(blocks) :
             IF blocks[b].refs.has
             THEN /\ Len(blocks'[b].options) = Len(blocks[b].options)
                  /\ \A n \in 1..Len(blocks[b].options) :
                       blocks[b].options[n].key # <<>> =>
                         blocks'[b].options[n].key = blocks[b].options[n].key
             ELSE blocks'[b] = blocks[b] ]_vars

\* the step is a Save, with its reload, of a document just loaded and not
\* modified
ReloadStep == pc = "core_text" /\ pc' = "core_saved" /\ last.args = << "core_loaded" >>

\* the lines of a document, in order
Raws(h, lines) == [ i \in 1..Len(lines) |-> h[lines[i]].raw ]

\* the lines of a text, without their terminators
LinesOf(t) == [ i \in 1..Len(readlines(t)) |-> rstrip_nl(readlines(t)[i]) ]

\* C18 as stated: for every file text, loading, serializing and loading
\* again gives the lines the first load gave.
C18_AsStated ==
  [][ ReloadStep => Raws(heap', all_lines') = Raws(heap, all_lines) ]_vars

\* C18: when the first load keeps at least one line and the lines it keeps
\* contain no run that equals a catalogue entry, loading, serializing and
\* loading again gives the entries the first load gave: the same lines with
\* the same key, value and commented flag, in the same order.
C18_FixedPoint ==
  [][ ( /\ ReloadStep
        /\ all_lines # <<>>
        /\ ~ContainsBlock(Raws(heap, all_lines)) ) =>
        /\ Len(all_lines') = Len(all_lines)
        /\ \A i \in 1..Len(all_lines) :
             LET a == heap[all_lines[i]]
                 b == heap'[all_lines'[i]]
             IN /\ b.raw = a.raw
                /\ b.key = a.key
                /\ b.value = a.value
                /\ b.commented = a.commented ]_vars

\* a file with a catalogue block and other lines was loaded, saved and
\* loaded again: the backup holds the file as it was, the document the lines
\* outside the block
C18_Witness ==
  /\ pc = "core_saved" /\ last.args = << "core_loaded" >>
  /\ bak.exists /\ ContainsBlock(LinesOf(bak.data))
  /\ all_lines # <<>>
  /\ Len(all_lines) < Len(LinesOf(bak.data))
  /\ ~ContainsBlock(Raws(heap, all_lines))
  /\ live.data = out

\* the entries of all_lines that are active directives, in document order
ActiveOf(h, lines) ==
  SelectSeq(lines, LAMBDA id : ~h[id].commented /\ h[id].key # <<>>)

\* the entries of all_lines with an empty key, in document order
EmptyKeyOf(h, lines) == SelectSeq(lines, LAMBDA id : h[id].key = <<>>)

\* C19 as stated: whenever the window is idle, after any sequence of load,
\* add, edit and delete, options holds exactly the entries of all_lines that
\* are active directives, in document order, comments exactly those with an
\* empty key, and no entry removed from all_lines is in either list.
C19_AsStated ==
  pc = "idle" =>
    /\ options = ActiveOf(heap, all_lines)
    /\ comments = EmptyKeyOf(heap, all_lines)
    /\ \A n \in 1..Len(options) : options[n] \notin deleted
    /\ \A n \in 1..Len(comments) : comments[n] \notin deleted

\* the step is the backup step of a Save, which succeeds
SaveBackupStep == pc = "idle" /\ pc' = "save_collect"

\* the step is on_restore from the closing of its dialog to its end
RestoreRefreshStep == pc = "restore_dialog" /\ pc' = "idle"

\* the document is the one load builds from the text t
LoadedFrom(t) ==
  /\ BuiltFromFile(heap', all_lines', options', comments', includes', t)
  /\ \A j \in 1..Len(LinesOf(t)) :
       (\E i \in 1..Len(all_lines') : heap'[all_lines'[i]].line_number = j)
         <=> ~InBlock(LinesOf(t), j)

\* C20: with no other process writing or removing either file (section 5 of
\* the specification: one process has the files to itself), after a Save
\* that ran to its end, a Restore with no handler writing the backup in
\* between gives the live file exactly what it held before that Save, and
\* the refresh that follows the dialog of the Restore makes the document the
\* one loaded from that content; and when a second Save follows a first
\* with no Restore in between, its backup step leaves in the backup the text
\* the first Save wrote.
C20_SaveRestore ==
  [][ /\ (RestoreStep /\ presave.done /\ presave.bak_kept /\ presave.alone) =>
           /\ last'.ok
           /\ live' = presave.before
           /\ bak' = bak
      /\ (RestoreRefreshStep /\ presave.done /\ presave.bak_kept /\ presave.alone) =>
           /\ last'.ok
           /\ live = presave.before
           /\ LoadedFrom(presave.before.data)
      /\ (SaveBackupStep /\ presave.done /\ presave.live_kept /\ presave.alone) =>
           bak' = [ exists |-> TRUE, data |-> presave.written ] ]_vars

\* a Save rewrote the live file and the Restore that followed, with no other
\* process at the files, has brought back what the file held before, with
\* the document loaded from it
C20_Witness ==
  /\ last.op = "refresh_configuration" /\ last.ok
  /\ presave.done /\ presave.bak_kept /\ presave.alone
  /\ presave.written # presave.before.data
  /\ live = presave.before
  /\ bak = live
  /\ to_text(heap, all_lines) = live.data

====
